---- MODULE Spec2Model ----
(***************************************************************************)
(* SearchQueryEvaluator (src/search/query_evaluator.py): the recursive     *)
(* evaluation of a tag-query AST against the image database, scoped to     *)
(* the selected directories.  Strings are sequences of one-character       *)
(* strings, so that SQLite's LIKE and lower() are computed, not assumed.   *)
(***************************************************************************)
EXTENDS Naturals, Sequences, FiniteSets

VARIABLES
    images,                 \* table images: rows [id, path]
    tags,                   \* table tags: rows [id, name]
    image_tags,             \* table image_tags: rows [image_id, tag_id]
    selected_directories,   \* self.selected_directories (normalized, a set)
    lock,                   \* self.db.lock: the thread holding it, or NoThread
    inStore,                \* threads between sqlite3.connect and the end of the with block
    calls                   \* one evaluate(root) call per calling thread

vars == <<images, tags, image_tags, selected_directories, lock, inStore, calls>>

NoThread == 0

\* ---------------------------------------------------------------- bounds
MaxNodes == 4       \* nodes of the ASTs handed to evaluate
MaxFailures == 2    \* lookups that fail with sqlite3.Error, over all calls
MaxPairNodes == 3   \* nodes of the first AST when two threads evaluate

\* ---------------------------------------------------------------- strings
P_a_x  == <<"/", "a", "/", "x">>
P_ab_x == <<"/", "a", "b", "/", "x">>
P_b_x  == <<"/", "b", "/", "x">>

D_a    == <<"/", "a">>
D_b    == <<"/", "b", "/">>
D_a_   == <<"/", "a", "_">>

T_cat  == <<"c", "a", "t">>
T_Cat  == <<"C", "a", "t">>
T_dog  == <<"d", "o", "g">>
T_DOG  == <<"D", "O", "G">>

\* SQLite's built-in lower() and LIKE fold the ASCII letters only.
LowerChar(ch) ==
    CASE ch = "C" -> "c"
      [] ch = "D" -> "d"
      [] ch = "O" -> "o"
      [] ch = "G" -> "g"
      [] OTHER -> ch

lower(s) == [k \in 1..Len(s) |-> LowerChar(s[k])]

endswith(s, ch) == Len(s) > 0 /\ s[Len(s)] = ch

\* X LIKE pat, with no ESCAPE clause: % is any run of characters, _ is any
\* one character, every other character matches itself ignoring ASCII case.
RECURSIVE Like(_, _)
Like(pat, s) ==
    IF pat = <<>> THEN s = <<>>
    ELSE IF Head(pat) = "%"
         THEN Like(Tail(pat), s) \/ (s # <<>> /\ Like(pat, Tail(s)))
         ELSE /\ s # <<>>
              /\ (Head(pat) = "_" \/ LowerChar(Head(pat)) = LowerChar(Head(s)))
              /\ Like(Tail(pat), Tail(s))

\* ---------------------------------------------------------------- queries
\* if not norm_dir.endswith('/'): norm_dir += '/' ; param f"{norm_dir}%"
DirParam(norm_dir) ==
    (IF endswith(norm_dir, "/") THEN norm_dir ELSE norm_dir \o <<"/">>) \o <<"%">>

\* the OR of "path LIKE ?" over the selected directories
DirWhere(path) == \E d \in selected_directories : Like(DirParam(d), path)

\* TagQuery without the directory conditions in its WHERE clause
TagQueryUnscoped(tag) ==
    { it.image_id : it \in
        { r \in image_tags :
            /\ \E t \in tags : r.tag_id = t.id /\ lower(t.name) = lower(tag)
            /\ \E i \in images : r.image_id = i.id } }

\* SELECT it.image_id FROM image_tags it JOIN tags t JOIN images i
\* WHERE lower(t.name) = lower(?) AND (dir_where_clause)
TagQuery(tag) ==
    { it.image_id : it \in
        { r \in image_tags :
            /\ \E t \in tags : r.tag_id = t.id /\ lower(t.name) = lower(tag)
            /\ \E i \in images : r.image_id = i.id /\ DirWhere(i.path) } }

\* SELECT id FROM images WHERE where_clause
AllQuery == { i.id : i \in { r \in images : DirWhere(r.path) } }

\* ---------------------------------------------------------------- AST
TagNode(tag)      == [type |-> "Tag", tag |-> tag]
AllImagesNode     == [type |-> "All"]
AndNode(l, r)     == [type |-> "And", left |-> l, right |-> r]
OrNode(l, r)      == [type |-> "Or", left |-> l, right |-> r]
NotNode(n)        == [type |-> "Not", node |-> n]
BracketNode(e)    == [type |-> "Bracket", expression |-> e]

QueryTags == {T_cat, T_DOG}
Leaves == {TagNode(t) : t \in QueryTags} \cup {AllImagesNode}

RECURSIVE ASTsOfSize(_)
ASTsOfSize(n) ==
    IF n = 1 THEN Leaves
    ELSE LET inner == ASTsOfSize(n - 1)
             pairs == UNION { ASTsOfSize(k) \X ASTsOfSize(n - 1 - k) : k \in 1..(n - 2) }
         IN  {NotNode(a) : a \in inner} \cup {BracketNode(a) : a \in inner}
             \cup {AndNode(p[1], p[2]) : p \in pairs}
             \cup {OrNode(p[1], p[2]) : p \in pairs}

ASTsUpTo(n) == UNION { ASTsOfSize(k) : k \in 1..n }

\* ---------------------------------------------------------------- one call
\* A call of evaluate(root) by one thread: the Python call stack (innermost
\* frame first), where the thread is, what it returned, and what it did.
\* status: "queued" the caller makes this call when its previous one has
\* returned; "ready" evaluate was called; "waiting" at `with self.db.lock`;
\* "locked" inside the with block; "done" returned; "raised" an exception left
\* evaluate.
Frame(node, path) == [node |-> node, path |-> path, pc |-> "enter", acc |-> {}]

NewCall(root) ==
    [root |-> root, stack |-> <<Frame(root, <<>>)>>, status |-> "ready",
     result |-> {}, log |-> <<>>]

Logged(cs, ev, path, val) ==
    [cs EXCEPT !.log = Append(@, [ev |-> ev, path |-> path, val |-> val])]

SetTop(cs, pc, acc) ==
    [cs EXCEPT !.stack = <<[Head(@) EXCEPT !.pc = pc, !.acc = acc]>> \o Tail(@)]

Push(cs, node, step) ==
    [cs EXCEPT !.stack = <<Frame(node, Append(Head(@).path, step))>> \o @]

\* ScopeIsEmpty without the early return of the two lookups
ScopeIsEmptyNeverTaken == FALSE

\* if not self.selected_directories: return set()
ScopeIsEmpty == selected_directories = {}

\* AndSkipsRight without the short circuit on an empty left set
AndNeverSkipsRight(left_set) == FALSE

\* if not left_set: result = set()
AndSkipsRight(left_set) == left_set = {}

\* AndResult keeping the left set as it is
AndResultLeftOnly(left_set, right_set) == left_set

AndResult(left_set, right_set) == left_set \cap right_set
OrResult(left_set, right_set) == left_set \cup right_set
NotResult(all_in_scope, excluded_set) == all_in_scope \ excluded_set

RECURSIVE Enter(_), Return(_, _), LookupResult(_, _)

\* evaluate(node) is entered: the isinstance dispatch, run up to the next
\* `with self.db.lock` or to the end of the call.
Enter(cs) ==
    LET f == Head(cs.stack) IN
    CASE f.node.type \in {"Tag", "All", "Not"} ->
           \* get_image_ids_by_tag / get_all_image_ids_in_scope is called
           LET c1 == Logged(cs, "lookup", f.path, {}) IN
           IF ScopeIsEmpty
           THEN LookupResult(c1, {})
           ELSE [SetTop(c1, "lookup", {}) EXCEPT !.status = "waiting"]
      [] f.node.type \in {"And", "Or"} ->
           Enter(Push(SetTop(cs, "left", {}), f.node.left, 1))
      [] f.node.type = "Bracket" ->
           Enter(Push(SetTop(cs, "inner", {}), f.node.expression, 1))

\* the lookup of the innermost frame returned v
LookupResult(cs, v) ==
    LET f == Head(cs.stack) IN
    IF f.node.type = "Not"
    THEN Enter(Push(SetTop(cs, "inner", v), f.node.node, 1))
    ELSE Return(cs, v)

\* evaluate(node) of the innermost frame returns v to its caller
Return(cs, v) ==
    LET f    == Head(cs.stack)
        c1   == Logged(cs, "return", f.path, v)
        rest == Tail(cs.stack)
        up   == [c1 EXCEPT !.stack = rest]
    IN
    IF rest = <<>>
    THEN [up EXCEPT !.status = "done", !.result = v]
    ELSE LET p == Head(rest) IN
         CASE p.node.type = "And" /\ p.pc = "left" ->
                IF AndSkipsRight(v)
                THEN Return(up, {})
                ELSE Enter(Push(SetTop(up, "right", v), p.node.right, 2))
           [] p.node.type = "And" /\ p.pc = "right" ->
                Return(up, AndResult(p.acc, v))
           [] p.node.type = "Or" /\ p.pc = "left" ->
                Enter(Push(SetTop(up, "right", v), p.node.right, 2))
           [] p.node.type = "Or" /\ p.pc = "right" ->
                Return(up, OrResult(p.acc, v))
           [] p.node.type = "Not" ->
                Return(up, NotResult(p.acc, v))
           [] p.node.type = "Bracket" ->
                Return(up, v)

\* the query of the innermost frame's lookup
QueryOf(cs) ==
    LET f == Head(cs.stack) IN
    IF f.node.type = "Tag" THEN TagQuery(f.node.tag) ELSE AllQuery

\* LookupFailed without the except clause: sqlite3.Error leaves evaluate
LookupFailedRaises(cs) ==
    [Logged(cs, "fail", Head(cs.stack).path, {}) EXCEPT !.status = "raised", !.stack = <<>>]

\* LookupFailed with an except clause that returns every image id
LookupFailedReturnsAll(cs) ==
    LookupResult(Logged(cs, "fail", Head(cs.stack).path, {}), { i.id : i \in images })

\* except sqlite3.Error: print(...); return set()
LookupFailed(cs) ==
    LookupResult(Logged(cs, "fail", Head(cs.stack).path, {}), {})

\* Released with the lock kept by the thread that leaves the with block
NotReleased(t) == t

\* leaving the with block, on either path, releases self.db.lock
Released(t) == NoThread

\* CanAcquire with a lock that excludes nobody
CanAlwaysAcquire(t) == TRUE

\* `with self.db.lock` is entered only when no thread holds the lock
CanAcquire(t) == lock = NoThread

\* ---------------------------------------------------------------- state
Images == { [id |-> "i1", path |-> P_a_x],
            [id |-> "i2", path |-> P_ab_x],
            [id |-> "i3", path |-> P_b_x] }
Tags == { [id |-> 1, name |-> T_Cat], [id |-> 2, name |-> T_dog] }

Assoc(i, t) == [image_id |-> i, tag_id |-> t]
FixedAssocs == { Assoc("i3", 2) }
OptionalAssocs == { Assoc("i1", 1), Assoc("i1", 2), Assoc("i2", 1) }
NormDirs == {D_a, D_b, D_a_}

Threads == DOMAIN calls

InitStore ==
    /\ images = Images
    /\ tags = Tags
    /\ image_tags \in { FixedAssocs \cup s : s \in SUBSET OptionalAssocs }
    /\ lock = NoThread
    /\ inStore = {}

Init ==
    /\ InitStore
    /\ selected_directories \in SUBSET NormDirs
    /\ \E root \in ASTsUpTo(MaxNodes) : calls = [t \in {1} |-> NewCall(root)]

\* ---------------------------------------------------------------- actions
RECURSIVE CountFails(_)
CountFails(log) ==
    IF log = <<>> THEN 0
    ELSE (IF Head(log).ev = "fail" THEN 1 ELSE 0) + CountFails(Tail(log))

RECURSIVE SumFails(_)
SumFails(ts) ==
    IF ts = {} THEN 0
    ELSE LET t == CHOOSE u \in ts : TRUE IN CountFails(calls[t].log) + SumFails(ts \ {t})

Failures == SumFails(Threads)

\* evaluate(root) runs up to its first `with self.db.lock`, or to its end
Evaluate(t) ==
    /\ \/ calls[t].status = "ready"
       \/ /\ calls[t].status = "queued"
          /\ \A u \in Threads \ {t} : calls[u].status \in {"done", "raised"}
    /\ calls' = [calls EXCEPT ![t] = Enter([@ EXCEPT !.status = "ready"])]
    /\ UNCHANGED <<images, tags, image_tags, selected_directories, lock, inStore>>

\* with self.db.lock: sqlite3.connect(...)
Acquire(t) ==
    /\ calls[t].status = "waiting"
    /\ CanAcquire(t)
    /\ lock' = t
    /\ inStore' = inStore \cup {t}
    /\ calls' = [calls EXCEPT ![t] =
                    [Logged(@, "acquire", Head(@.stack).path, {}) EXCEPT !.status = "locked"]]
    /\ UNCHANGED <<images, tags, image_tags, selected_directories>>

\* cursor.execute(...) succeeds; the with block ends; return result
QueryOk(t) ==
    /\ calls[t].status = "locked"
    /\ lock' = Released(t)
    /\ inStore' = inStore \ {t}
    /\ calls' = [calls EXCEPT ![t] =
                    LookupResult(Logged(@, "query", Head(@.stack).path, QueryOf(@)), QueryOf(@))]
    /\ UNCHANGED <<images, tags, image_tags, selected_directories>>

\* sqlite3.Error inside the with block; the with block is left; return set()
QueryFail(t) ==
    /\ calls[t].status = "locked"
    /\ Failures < MaxFailures
    /\ lock' = Released(t)
    /\ inStore' = inStore \ {t}
    /\ calls' = [calls EXCEPT ![t] = LookupFailed(@)]
    /\ UNCHANGED <<images, tags, image_tags, selected_directories>>

Next ==
    \/ \E t \in Threads : Evaluate(t)
    \/ \E t \in Threads : Acquire(t)
    \/ \E t \in Threads : QueryOk(t)
    \/ \E t \in Threads : QueryFail(t)

Spec == Init /\ [][Next]_vars

\* ---------------------------------------------------------------- two calls
\* A second call on the same evaluator and database evaluates the first
\* call's AST, its double negation, or its operands swapped.
Swapped(a) ==
    IF a.type \in {"And", "Or"} THEN [a EXCEPT !.left = a.right, !.right = a.left] ELSE a

Related(a) == {a, NotNode(NotNode(a)), Swapped(a)}

\* One caller: the second call is made when the first has returned.
InitTwoCalls ==
    /\ InitStore
    /\ selected_directories \in SUBSET {D_a, D_b}
    /\ \E root \in ASTsUpTo(MaxPairNodes) : \E other \in Related(root) :
          calls = [t \in {1, 2} |->
                     IF t = 1 THEN NewCall(root)
                     ELSE [NewCall(other) EXCEPT !.status = "queued"]]

SpecTwoCalls == InitTwoCalls /\ [][Next]_vars

\* Two threads: both calls are in progress at once, on one database content.
InitConcurrent ==
    /\ InitStore
    /\ selected_directories \in SUBSET {D_a, D_b}
    /\ image_tags = FixedAssocs \cup OptionalAssocs
    /\ \E root \in ASTsUpTo(MaxPairNodes) : \E other \in Related(root) :
          calls = [t \in {1, 2} |-> NewCall(IF t = 1 THEN root ELSE other)]

SpecConcurrent == InitConcurrent /\ [][Next]_vars

\* ---------------------------------------------------------------- reading a call
Done(t) == calls[t].status = "done"
LogOf(t) == calls[t].log
Failed(t) == \E k \in DOMAIN LogOf(t) : LogOf(t)[k].ev = "fail"
StoreEvents == {"acquire", "query", "fail"}

IsPrefix(p, q) == Len(p) <= Len(q) /\ SubSeq(q, 1, Len(p)) = p

Child(n, k) ==
    CASE n.type \in {"And", "Or"} -> IF k = 1 THEN n.left ELSE n.right
      [] n.type = "Not" -> n.node
      [] n.type = "Bracket" -> n.expression

RECURSIVE NodeAt(_, _)
NodeAt(n, path) ==
    IF path = <<>> THEN n ELSE NodeAt(Child(n, Head(path)), Tail(path))

\* the Not nodes strictly above the node at path
NotsAbove(root, path) ==
    Cardinality({ k \in 0..(Len(path) - 1) : NodeAt(root, SubSeq(path, 1, k)).type = "Not" })

\* ---------------------------------------------------------------- scope (C1, C2)
\* Directory containment: the location begins with the prefix, the prefix
\* ending with a path separator.
Under(dir, path) ==
    LET d == IF endswith(dir, "/") THEN dir ELSE dir \o <<"/">>
    IN  Len(path) >= Len(d) /\ SubSeq(path, 1, Len(d)) = d

InScopeIds ==
    { i.id : i \in { r \in images : \E d \in selected_directories : Under(d, r.path) } }

\* C1: every identifier evaluate returns belongs to an item whose location
\* lies under some scope prefix by directory containment.
C1_ResultInScope ==
    \A t \in Threads : Done(t) => calls[t].result \subseteq InScopeIds

\* The reference semantics of the specification's table.
RefTag(name) ==
    { id \in InScopeIds :
        \E it \in image_tags : \E tg \in tags :
            it.image_id = id /\ it.tag_id = tg.id /\ lower(tg.name) = lower(name) }

RECURSIVE RefEval(_)
RefEval(n) ==
    CASE n.type = "Tag" -> RefTag(n.tag)
      [] n.type = "All" -> InScopeIds
      [] n.type = "And" -> RefEval(n.left) \cap RefEval(n.right)
      [] n.type = "Or" -> RefEval(n.left) \cup RefEval(n.right)
      [] n.type = "Not" -> InScopeIds \ RefEval(n.node)
      [] n.type = "Bracket" -> RefEval(n.expression)

\* C2: when no lookup fails, evaluate returns what the reference set
\* semantics gives for the AST (the store is constant in this model).
C2_AgreesWithReference ==
    \A t \in Threads : (Done(t) /\ ~Failed(t)) => calls[t].result = RefEval(calls[t].root)

\* ---------------------------------------------------------------- two calls (C3, C4, C7)
IsDoubleNegationOf(u, t) == calls[u].root = NotNode(NotNode(calls[t].root))

IsSwappedAnd(u, t) ==
    /\ calls[t].root.type = "And"
    /\ calls[u].root = AndNode(calls[t].root.right, calls[t].root.left)

HasLookupUnder(t, path) ==
    \E k \in DOMAIN LogOf(t) : LogOf(t)[k].ev = "lookup" /\ IsPrefix(path, LogOf(t)[k].path)

C7_FailuresOnlyRemove ==
    \A t \in Threads : \A u \in Threads :
        (Done(t) /\ Done(u) /\ calls[t].root = calls[u].root /\ ~Failed(u))
            => calls[t].result \subseteq calls[u].result

\* every failed lookup of the call lies under an even number of Not nodes
FailsUnderEvenNots(t) ==
    \A k \in DOMAIN LogOf(t) :
        LogOf(t)[k].ev = "fail" => NotsAbove(calls[t].root, LogOf(t)[k].path) % 2 = 0

\* C7 amended: when every failed lookup lies under an even number of Not
\* nodes, evaluate returns a subset of what the same call returns when no
\* lookup fails.
C7_PositiveFailuresOnlyRemove ==
    \A t \in Threads : \A u \in Threads :
        (Done(t) /\ Done(u) /\ calls[t].root = calls[u].root /\ ~Failed(u)
            /\ FailsUnderEvenNots(t))
            => calls[t].result \subseteq calls[u].result

C7_Witness ==
    \E t \in Threads : \E u \in Threads :
        /\ Done(t) /\ Done(u) /\ calls[t].root = calls[u].root
        /\ ~Failed(u) /\ Failed(t) /\ FailsUnderEvenNots(t)
        /\ calls[t].root.type = "Or"
        /\ calls[t].result # {}
        /\ calls[t].result # calls[u].result

\* ---------------------------------------------------------------- one call (C5, C6, C9)
HasEvent(t, evs) == \E k \in DOMAIN LogOf(t) : LogOf(t)[k].ev \in evs

\* C5: with an empty scope set evaluate returns the empty set, and no lookup
\* acquires the lock or issues a query.
C5_EmptyScopeNeverTouchesStore ==
    selected_directories = {} =>
        /\ lock = NoThread
        /\ inStore = {}
        /\ \A t \in Threads :
              /\ ~HasEvent(t, StoreEvents)
              /\ calls[t].status \notin {"waiting", "locked"}
              /\ Done(t) => calls[t].result = {}

C5_Witness ==
    /\ selected_directories = {}
    /\ \E t \in Threads : Done(t) /\ calls[t].root = NotNode(AllImagesNode)

\* the values evaluate returned for the node at path (at most one)
ReturnsAt(t, path) ==
    { LogOf(t)[k].val :
        k \in { j \in DOMAIN LogOf(t) : LogOf(t)[j].ev = "return" /\ LogOf(t)[j].path = path } }

FailsUnder(t, path) ==
    \E k \in DOMAIN LogOf(t) : LogOf(t)[k].ev = "fail" /\ IsPrefix(path, LogOf(t)[k].path)

\* what the queries of the code give for a node when none of them fails
RECURSIVE Matched(_)
Matched(n) ==
    CASE n.type = "Tag" -> TagQuery(n.tag)
      [] n.type = "All" -> AllQuery
      [] n.type = "And" -> Matched(n.left) \cap Matched(n.right)
      [] n.type = "Or" -> Matched(n.left) \cup Matched(n.right)
      [] n.type = "Not" -> AllQuery \ Matched(n.node)
      [] n.type = "Bracket" -> Matched(n.expression)

\* C6: a failed lookup is caught where it happens and gives the empty set (a
\* failed leaf returns the empty set at once, a Not whose all-in-scope lookup
\* failed returns the empty set); no exception leaves evaluate; and an Or
\* whose right operand had no failure returns every item its right operand
\* matches.
C6_FailedLookupDegradesToEmpty ==
    \A t \in Threads :
        /\ calls[t].status # "raised"
        /\ \A k \in DOMAIN LogOf(t) :
              LET e == LogOf(t)[k] IN
              /\ e.ev = "fail" =>
                    /\ \A v \in ReturnsAt(t, e.path) : v = {}
                    /\ NodeAt(calls[t].root, e.path).type # "Not" => ReturnsAt(t, e.path) = {{}}
              /\ (/\ e.ev = "return"
                  /\ NodeAt(calls[t].root, e.path).type = "Or"
                  /\ ~FailsUnder(t, Append(e.path, 2)))
                    => Matched(NodeAt(calls[t].root, e.path).right) \subseteq e.val

C6_Witness ==
    \E t \in Threads :
        /\ Done(t)
        /\ calls[t].root.type = "Or"
        /\ FailsUnder(t, <<1>>)
        /\ ~FailsUnder(t, <<2>>)
        /\ Matched(calls[t].root.left) # {}
        /\ calls[t].result = Matched(calls[t].root.right)
        /\ calls[t].result # {}

LookupsUnder(t, path) ==
    { k \in DOMAIN LogOf(t) : LogOf(t)[k].ev = "lookup" /\ IsPrefix(path, LogOf(t)[k].path) }

\* C9: an And whose left operand returned the empty set issues no lookup of
\* its right operand and returns the empty set; an Or that returned issued
\* lookups of both operands, the left one's first; every lookup below a Not
\* comes after that Not's own all-in-scope lookup.
C9_LookupOrder ==
    \A t \in Threads : \A k \in DOMAIN LogOf(t) :
        LET e    == LogOf(t)[k]
            root == calls[t].root
            up   == SubSeq(e.path, 1, Len(e.path) - 1)
        IN
        /\ (/\ e.ev = "return" /\ e.path # <<>> /\ e.val = {}
            /\ NodeAt(root, up).type = "And" /\ e.path[Len(e.path)] = 1)
              => /\ LookupsUnder(t, Append(up, 2)) = {}
                 /\ ReturnsAt(t, up) = {{}}
        /\ (e.ev = "return" /\ NodeAt(root, e.path).type = "Or")
              => /\ LookupsUnder(t, Append(e.path, 1)) # {}
                 /\ LookupsUnder(t, Append(e.path, 2)) # {}
                 /\ \A i \in LookupsUnder(t, Append(e.path, 1)) :
                        \A j \in LookupsUnder(t, Append(e.path, 2)) : i < j
        /\ e.ev = "lookup"
              => \A n \in 0..(Len(e.path) - 1) :
                    NodeAt(root, SubSeq(e.path, 1, n)).type = "Not"
                        => \E i \in 1..(k - 1) :
                              /\ LogOf(t)[i].ev = "lookup"
                              /\ LogOf(t)[i].path = SubSeq(e.path, 1, n)

\* an And over a non-empty right operand is cut short by its empty left one
C9_Witness ==
    \E t \in Threads :
        /\ Done(t)
        /\ calls[t].root.type = "And"
        /\ ReturnsAt(t, <<1>>) = {{}}
        /\ Matched(calls[t].root.right) # {}
        /\ LookupsUnder(t, <<2>>) = {}

\* ---------------------------------------------------------------- the lock (C8, C10)
\* C8 as stated: at no point does a thread evaluating hold a lock.
C8_HoldsNoLock == \A t \in Threads : lock # t

\* C8 amended: the evaluator holds the database's lock exactly while one of
\* its lookups is inside its with block, and at no other point of evaluate.
C8_HoldsLockOnlyInsideLookup ==
    \A t \in Threads :
        /\ lock = t <=> calls[t].status = "locked"
        /\ calls[t].status = "locked" =>
              /\ Head(calls[t].stack).pc = "lookup"
              /\ Head(calls[t].stack).node.type \in {"Tag", "All", "Not"}

\* one call is inside a lookup and the other waits for the lock
C8_Witness ==
    \E t \in Threads : \E u \in Threads :
        lock = t /\ calls[t].status = "locked" /\ calls[u].status = "waiting"

\* the guards of Evaluate, Acquire, QueryOk and QueryFail: the thread can move
CanStep(t) ==
    \/ calls[t].status \in {"ready", "locked"}
    \/ calls[t].status = "waiting" /\ CanAcquire(t)
    \/ /\ calls[t].status = "queued"
       /\ \A u \in Threads \ {t} : calls[u].status \in {"done", "raised"}

CountEvents(t, evs) == Cardinality({ k \in DOMAIN LogOf(t) : LogOf(t)[k].ev \in evs })

\* C10: at most one lookup is inside the store at a time; each lookup that
\* reaches the store acquires the lock once, right after it is called and
\* never while its call holds the lock; the lock is released when the query
\* ends, whether it succeeded or failed; a call that waits for the lock waits
\* for a call that is inside a lookup, and while a call has not returned some
\* step can be taken.
C10_LockDiscipline ==
    /\ Cardinality(inStore) <= 1
    /\ \A t \in Threads :
          /\ t \in inStore <=> lock = t
          /\ calls[t].status # "locked" => lock # t
          /\ CountEvents(t, {"acquire"})
                = CountEvents(t, {"query", "fail"}) + (IF calls[t].status = "locked" THEN 1 ELSE 0)
          /\ \A k \in DOMAIN LogOf(t) :
                LogOf(t)[k].ev = "acquire" =>
                    /\ k > 1
                    /\ LogOf(t)[k - 1].ev = "lookup"
                    /\ LogOf(t)[k - 1].path = LogOf(t)[k].path
                    /\ k < Len(LogOf(t)) =>
                          /\ LogOf(t)[k + 1].ev \in {"query", "fail"}
                          /\ LogOf(t)[k + 1].path = LogOf(t)[k].path
          /\ (calls[t].status = "waiting" /\ lock # NoThread)
                => calls[lock].status = "locked"
    /\ (\E t \in Threads : calls[t].status \notin {"done", "raised"})
          => \E t \in Threads : CanStep(t)

\* a call acquired the lock after the other call's lookup had failed
C10_Witness ==
    \E t \in Threads : \E u \in Threads :
        /\ t # u
        /\ Failed(t)
        /\ calls[t].status = "waiting"
        /\ lock = u
        /\ HasEvent(u, {"query"})

====
